---- MODULE Spec2Model ----
(***************************************************************************)
(* Model of simulation.py: the airplane entity, the initial schedule       *)
(* builder, the score evaluator, the randomized-with-recompute neighbor    *)
(* generator and the hill climbing, simulated annealing, tabu search and   *)
(* genetic optimizers.                                                     *)
(*                                                                         *)
(* Times are Python floats in hours.  They are modelled exactly as         *)
(* integers counting 1/Scale hours: the finest quantity in the program is  *)
(* the separation gap 3/60 h = 1/20 h, so Scale = 20 makes every time of   *)
(* the model an integer.  Scores are scaled the same way (1000 points are  *)
(* 1000 * Scale units) because a score is 1000 minus a time difference.    *)
(* The sum of the scores of a schedule is a sum of floats, rounded after   *)
(* every addition: see Significand.                                        *)
(***************************************************************************)
EXTENDS Integers, Sequences, FiniteSets, TLC

VARIABLES
    airplane_stream,      \* list[Airplane] handed to the algorithms
    pc,                   \* position of the running function
    landing_schedule_df,  \* the current schedule (a sequence of rows)
    current_score,        \* aggregate score of the current schedule
    neighbors,            \* the list get_Hill_Tabu_successors returned
    next_state_df,        \* hill climbing, tabu search: the tentative next state
    next_score,           \* ... and its score
    scores,               \* hill climbing, tabu search: the score history
    scanned,              \* tabu search: neighbors the for loop has processed
    best_solution_df,     \* tabu search: the best neighbor of the round
    best_solution_score,  \* ... and its score
    tabu_list,            \* tabu search: strings of the neighbors seen lately
    round_tabu_list,      \* ... as the running iteration found it (line 395)
    it,                   \* tabu search: the iteration counter
    max_iterations,       \* tabu search: parameter
    max_tabu_size,        \* tabu search: parameter
    best_schedule,        \* simulated annealing: the best schedule seen
    best_score,           \* ... and its score
    T,                    \* simulated annealing: the temperature
    iterations,           \* simulated annealing: passes of the loop body so far
    population_size,      \* genetic algorithm: parameter
    generations,          \* genetic algorithm: parameter
    frames,               \* genetic algorithm: the DataFrame objects, by identity
    population,           \* genetic algorithm: self.population, a list of references
    parents,              \* genetic algorithm: the list selection returned
    new_population,       \* genetic algorithm: the children of the generation
    generation,           \* genetic algorithm: the loop variable of run
    stale_generations     \* genetic algorithm: generations without improvement

searchVars == <<neighbors, next_state_df, next_score, scores>>

tabuVars == <<scanned, best_solution_df, best_solution_score, tabu_list,
              round_tabu_list, it, max_iterations, max_tabu_size>>

annealingVars == <<best_schedule, best_score, T, iterations>>

geneticVars == <<population_size, generations, frames, population, parents,
                 new_population, generation, stale_generations>>

vars == <<airplane_stream, pc, landing_schedule_df, current_score, searchVars,
          tabuVars, annealingVars, geneticVars>>

\* ---------------------------------------------------------------- units
Scale == 20

Hours(h) == h * Scale

\* 3/60 hours, the separation gap of schedule_landings
Gap == (3 * Scale) \div 60

\* 3 hours, the time a strip stays occupied
Occupancy == Hours(3)

NumStrips == 3

BaseScore == Hours(1000)

UrgencyPenalty == Hours(100)

\* ---------------------------------------------------------------- bounds
MaxPlanes == 4

\* the draws of random.uniform in Airplane.__init__: consumption rate and fuel
\* level (5 and 305: a surplus of 5 units, one hour of flight; 20 and 305: less
\* than the reserve of 1200, clamped up; 5 and 2000: 340 hours of flight) ...
FuelDraws == {<<5, 305>>, <<20, 305>>, <<5, 2000>>}

\* ... and the expected landing time: -1, 1, 2 and 3 hours
ELTs == {Hours(-1), Hours(1), Hours(2), Hours(3)}

\* ---------------------------------------------------------------- helpers
Max(a, b) == IF a >= b THEN a ELSE b

Abs(a) == IF a >= 0 THEN a ELSE 0 - a

\* ---------------------------------------------------------------- Airplane
AirplaneFuelNotClamped(id, rate, elt, fuel) ==
    LET emergency_fuel == rate * 60
        fuel_level_final == fuel - emergency_fuel
        remaining_flying_time == (Scale * fuel_level_final) \div rate
    IN  [id |-> id,
         fuel_consumption_rate |-> rate,
         expected_landing_time |-> elt,
         fuel_level |-> fuel,
         emergency_fuel |-> emergency_fuel,
         fuel_level_final |-> fuel_level_final,
         remaining_flying_time |-> remaining_flying_time,
         is_urgent |-> (fuel_level_final < emergency_fuel
                        \/ remaining_flying_time < Hours(1))]

\* Airplane.__init__, given the three values it draws.  The draws of the model
\* make fuel_level_final / fuel_consumption_rate exact in 1/Scale hours.
Airplane(id, rate, elt, fuel) ==
    LET emergency_fuel == rate * 60
        fuel_level == Max(fuel, emergency_fuel)
        fuel_level_final == fuel_level - emergency_fuel
        remaining_flying_time == (Scale * fuel_level_final) \div rate
    IN  [id |-> id,
         fuel_consumption_rate |-> rate,
         expected_landing_time |-> elt,
         fuel_level |-> fuel_level,
         emergency_fuel |-> emergency_fuel,
         fuel_level_final |-> fuel_level_final,
         remaining_flying_time |-> remaining_flying_time,
         is_urgent |-> (fuel_level_final < emergency_fuel
                        \/ remaining_flying_time < Hours(1))]

\* next((ap for ap in airplane_stream if ap.id == id), None): the first match
FindAirplane(stream, id) ==
    LET hits == {i \in 1..Len(stream) : stream[i].id = id}
    IN  IF hits = {} THEN <<>>
        ELSE <<stream[CHOOSE i \in hits : \A j \in hits : i <= j]>>

\* Python evaluates the arguments of a call before the call.  The recursive
\* definitions below do the same: the arguments of a recursive use are bound
\* over singleton sets (CHOOSE r \in {F(x) : x \in {e}} : TRUE is F(e)), so
\* that an argument is computed once and not each time the body mentions it.

\* ---------------------------------------------------------------- sorted()
\* Python's sorted(list, key=...) is stable: x goes after every element whose
\* key is <= its own.
RECURSIVE InsertSorted(_, _, _)
InsertSorted(sorted, x, field) ==
    IF sorted = <<>> THEN <<x>>
    ELSE IF Head(sorted)[field] <= x[field]
         THEN CHOOSE r \in {<<Head(sorted)>> \o InsertSorted(rest, x, field) :
                               rest \in {Tail(sorted)}} : TRUE
         ELSE <<x>> \o sorted

RECURSIVE SortedBy(_, _)
SortedBy(seq, field) ==
    IF seq = <<>> THEN <<>>
    ELSE CHOOSE r \in {InsertSorted(front, last, field) :
                          front \in {CHOOSE f \in {SortedBy(init, field) :
                                          init \in {SubSeq(seq, 1, Len(seq) - 1)}} :
                                          TRUE},
                          last \in {seq[Len(seq)]}} : TRUE

\* ---------------------------------------------------------------- schedule_landings
Row(id, time, urgent, strip) ==
    [AirplaneID |-> id, ActualLandingTime |-> time,
     Urgent |-> urgent, LandingStrip |-> strip]

\* the landing time of one airplane on a strip available at `available`
LandingTimeNoGap(airplane, available) ==
    LET actual_landing_time == Max(airplane.expected_landing_time, available)
    IN  IF airplane.is_urgent
           /\ actual_landing_time > airplane.remaining_flying_time
        THEN airplane.remaining_flying_time
        ELSE actual_landing_time

LandingTimeNoClamp(airplane, available) ==
    Max(airplane.expected_landing_time, available + Gap)

LandingTime(airplane, available) ==
    LET next_available_time_with_gap == available + Gap
        actual_landing_time ==
            Max(airplane.expected_landing_time, next_available_time_with_gap)
    IN  IF airplane.is_urgent
           /\ actual_landing_time > airplane.remaining_flying_time
        THEN airplane.remaining_flying_time
        ELSE actual_landing_time

RECURSIVE ScheduleLoop(_, _, _, _)
ScheduleLoop(sorted_airplanes, landing_strip_availability, landing_strip_index, landing_schedule) ==
    IF sorted_airplanes = <<>> THEN landing_schedule
    ELSE LET airplane == Head(sorted_airplanes)
             chosen_strip == landing_strip_index % NumStrips
             actual_landing_time ==
                 LandingTime(airplane,
                             landing_strip_availability[chosen_strip + 1])
         IN  CHOOSE r \in
                 {ScheduleLoop(rest, availability, index, schedule) :
                     rest \in {Tail(sorted_airplanes)},
                     availability \in
                         {[landing_strip_availability EXCEPT
                             ![chosen_strip + 1] = actual_landing_time + Occupancy]},
                     index \in {landing_strip_index + 1},
                     schedule \in
                         {Append(landing_schedule,
                                 Row(airplane.id, actual_landing_time,
                                     airplane.is_urgent, chosen_strip + 1))}} : TRUE

SortedAirplanesByExpectedTime(stream) ==
    SortedBy(stream, "expected_landing_time")

SortedAirplanes(stream) ==
    LET urgent_airplanes ==
            SortedBy(SelectSeq(stream, LAMBDA ap : ap.is_urgent),
                     "remaining_flying_time")
        non_urgent_airplanes ==
            SortedBy(SelectSeq(stream, LAMBDA ap : ~ap.is_urgent),
                     "expected_landing_time")
    IN  urgent_airplanes \o non_urgent_airplanes

schedule_landings(stream) ==
    CHOOSE r \in {ScheduleLoop(sorted_airplanes, <<0, 0, 0>>, 0, <<>>) :
                     sorted_airplanes \in {SortedAirplanes(stream)}} : TRUE

\* ---------------------------------------------------------------- evaluate_landing_schedule
HasScore(row) == "Score" \in DOMAIN row

WithScore(row, score) ==
    [AirplaneID |-> row.AirplaneID, ActualLandingTime |-> row.ActualLandingTime,
     Urgent |-> row.Urgent, LandingStrip |-> row.LandingStrip, Score |-> score]

RowScore(airplane, time) ==
    LET difference == Abs(airplane.expected_landing_time - time)
        urgency_penalty == IF airplane.is_urgent THEN UrgencyPenalty ELSE 0
    IN  BaseScore - difference - urgency_penalty

\* the loop of evaluate_landing_schedule: the frame with its Score column written
RECURSIVE ScoredSchedule(_, _)
ScoredSchedule(df, stream) ==
    IF df = <<>> THEN <<>>
    ELSE LET row == Head(df)
             found == FindAirplane(stream, row.AirplaneID)
         IN  CHOOSE r \in
                 {<<IF found = <<>> THEN row
                    ELSE WithScore(row, RowScore(found[1], row.ActualLandingTime))>>
                  \o ScoredSchedule(rest, stream) : rest \in {Tail(df)}} : TRUE

\* The Score column holds floats and its sum is a sum of floats: every
\* addition rounds to the nearest float, ties to the even significand, so the
\* sum depends on the order of the rows.  The model keeps this with a shorter
\* significand (float64 has 53 bits): every row score of the model is below
\* 2^Significand units and so is a float of the model, a sum of two or more
\* rows is rounded.
Significand == 15

\* the distance between neighboring floats around x >= 0
RECURSIVE Ulp(_, _)
Ulp(x, unit) == IF x < unit * 2^Significand THEN unit ELSE Ulp(x, 2 * unit)

\* the float nearest to x >= 0
FloatRound(x) ==
    LET unit == Ulp(x, 1)
        quotient == x \div unit
        remainder == x % unit
    IN  IF 2 * remainder < unit THEN quotient * unit
        ELSE IF 2 * remainder > unit THEN (quotient + 1) * unit
        ELSE IF quotient % 2 = 0 THEN quotient * unit
        ELSE (quotient + 1) * unit

\* a + b in floats
FloatAdd(a, b) ==
    IF a + b >= 0 THEN FloatRound(a + b) ELSE 0 - FloatRound(0 - (a + b))

\* the rows are added from the first to the last
RECURSIVE FloatSum(_, _)
FloatSum(df, total) ==
    IF df = <<>> THEN total
    ELSE CHOOSE r \in
             {FloatSum(rest, sum) :
                 rest \in {Tail(df)},
                 sum \in {FloatAdd(total, IF HasScore(Head(df))
                                          THEN Head(df).Score ELSE 0)}} : TRUE

\* landing_schedule_df['Score'].sum(); rows without a score (NaN) are skipped
TotalScore(df) == FloatSum(df, 0)

evaluate_landing_schedule(df, stream) ==
    CHOOSE r \in {TotalScore(scored) : scored \in {ScoredSchedule(df, stream)}} :
        TRUE

\* ---------------------------------------------------------------- get_Hill_Tabu_successors
\* number of successors per call: the num_successors parameter (default 15)
NumSuccessors == 2

\* random.sample(range(num_planes), 2): two distinct positions, 0-based.  The
\* swap of rows i and j is the swap of rows j and i, so each pair is drawn once.
SamplePairs(num_planes) ==
    {p \in (0..(num_planes - 1)) \X (0..(num_planes - 1)) : p[1] < p[2]}

SwapRowsOverwrites(df, i, j) == [df EXCEPT ![i + 1] = df[j + 1]]

\* df.iloc[i], df.iloc[j] = df.iloc[j].copy(), df.iloc[i].copy()
SwapRows(df, i, j) ==
    [df EXCEPT ![i + 1] = df[j + 1], ![j + 1] = df[i + 1]]

RECURSIVE InsertAscending(_, _)
InsertAscending(sorted, x) ==
    IF sorted = <<>> THEN <<x>>
    ELSE IF Head(sorted) <= x
         THEN CHOOSE r \in {<<Head(sorted)>> \o InsertAscending(rest, x) :
                               rest \in {Tail(sorted)}} : TRUE
         ELSE <<x>> \o sorted

\* deque(sorted(strip_availability_times))
RECURSIVE SortedTimes(_)
SortedTimes(times) ==
    IF times = <<>> THEN <<>>
    ELSE CHOOSE r \in {InsertAscending(sorted, Head(times)) :
                          sorted \in {CHOOSE s \in {SortedTimes(rest) :
                                           rest \in {Tail(times)}} : TRUE}} : TRUE

\* lines 120-131: rows index.. of the frame recomputed in order
RECURSIVE Recompute(_, _, _, _)
Recompute(new_schedule_df, stream, index, strip_availability_times) ==
    IF index > Len(new_schedule_df) THEN new_schedule_df
    ELSE LET row == new_schedule_df[index]
             found == FindAirplane(stream, row.AirplaneID)
         IN  IF found = <<>>
             THEN CHOOSE r \in {Recompute(new_schedule_df, stream, next,
                                          strip_availability_times) :
                                   next \in {index + 1}} : TRUE
             ELSE LET airplane == found[1]
                      current_time == Max(strip_availability_times[1],
                                          airplane.expected_landing_time)
                      scored == [WithScore(row, RowScore(airplane, current_time))
                                    EXCEPT !.ActualLandingTime = current_time]
                  IN  CHOOSE r \in
                          {Recompute(schedule, stream, next, times) :
                              schedule \in {[new_schedule_df EXCEPT ![index] = scored]},
                              next \in {index + 1},
                              times \in
                                  {SortedTimes(Append(Tail(strip_availability_times),
                                                      current_time + Occupancy))}} :
                              TRUE

\* one successor: the copy with rows i and j swapped, then recomputed
Successor(df, stream, i, j) ==
    CHOOSE r \in {Recompute(new_schedule_df, stream, 1, <<0, 0, 0>>) :
                     new_schedule_df \in {SwapRows(df, i, j)}} : TRUE

\* the lists get_Hill_Tabu_successors can return: num_successors successors,
\* each for a pair sampled independently of the others
SuccessorLists(df, stream) ==
    LET successors == {Successor(df, stream, p[1], p[2]) :
                          p \in SamplePairs(Len(df))}
    IN  [1..NumSuccessors -> successors]

\* ---------------------------------------------------------------- urgency of the optimizers
RecomputeUrgencyFlyingTimeOnly(stream) ==
    [n \in 1..Len(stream) |->
        [stream[n] EXCEPT !.is_urgent =
            stream[n].remaining_flying_time < stream[n].expected_landing_time]]

\* lines 264-266 and 385-386: is_urgent recomputed in place
RecomputeUrgency(stream) ==
    [n \in 1..Len(stream) |->
        [stream[n] EXCEPT !.is_urgent =
            (stream[n].fuel_level_final < stream[n].emergency_fuel
             \/ stream[n].remaining_flying_time < stream[n].expected_landing_time)]]

\* ---------------------------------------------------------------- builder specification
NoScore == -1

\* the attributes and locals of the genetic algorithm before it is constructed
GeneticIdle ==
    /\ population_size = 0
    /\ generations = 0
    /\ frames = <<>>
    /\ population = <<>>
    /\ parents = <<>>
    /\ new_population = <<>>
    /\ generation = 0
    /\ stale_generations = 0

\* generate_airplane_stream: one Airplane per id, ids 1..num_airplanes
GenerateAirplane ==
    /\ pc = "generate"
    /\ Len(airplane_stream) < MaxPlanes
    /\ \E draw \in FuelDraws, elt \in ELTs :
          airplane_stream' =
              Append(airplane_stream,
                     Airplane(Len(airplane_stream) + 1, draw[1], elt, draw[2]))
    /\ UNCHANGED <<pc, landing_schedule_df, current_score, searchVars, tabuVars,
                   annealingVars, geneticVars>>

ScheduleLandings ==
    /\ pc = "generate"
    /\ landing_schedule_df' = schedule_landings(airplane_stream)
    /\ pc' = "scheduled"
    /\ UNCHANGED <<airplane_stream, current_score, searchVars, tabuVars,
                   annealingVars, geneticVars>>

\* evaluate_landing_schedule writes the Score column into the frame it is given;
\* a frame without rows never gets the column and ['Score'] raises KeyError
EvaluateLandingSchedule ==
    /\ pc = "scheduled"
    /\ IF Len(landing_schedule_df) = 0
       THEN /\ pc' = "KeyError"
            /\ UNCHANGED <<landing_schedule_df, current_score>>
       ELSE /\ landing_schedule_df' =
                   ScoredSchedule(landing_schedule_df, airplane_stream)
            /\ current_score' =
                   evaluate_landing_schedule(landing_schedule_df, airplane_stream)
            /\ pc' = "evaluated"
    /\ UNCHANGED <<airplane_stream, searchVars, tabuVars, annealingVars, geneticVars>>

\* the variables of the optimizers before any of them has run
SearchIdle ==
    /\ neighbors = <<>>
    /\ next_state_df = <<>>
    /\ next_score = NoScore
    /\ scores = <<>>

\* the variables of tabu search when it is not the function that runs
TabuIdle ==
    /\ scanned = 0
    /\ best_solution_df = <<>>
    /\ best_solution_score = NoScore
    /\ tabu_list = <<>>
    /\ round_tabu_list = <<>>
    /\ it = 0
    /\ max_iterations = 0
    /\ max_tabu_size = 0

\* the variables of simulated annealing when it is not the function that runs
AnnealingIdle ==
    /\ best_schedule = <<>>
    /\ best_score = NoScore
    /\ T = 0
    /\ iterations = 0

InitBuilder ==
    /\ airplane_stream = <<>>
    /\ pc = "generate"
    /\ landing_schedule_df = <<>>
    /\ current_score = NoScore
    /\ SearchIdle
    /\ TabuIdle
    /\ AnnealingIdle
    /\ GeneticIdle

NextBuilder ==
    \/ GenerateAirplane
    \/ ScheduleLandings
    \/ EvaluateLandingSchedule

SpecBuilder == InitBuilder /\ [][NextBuilder]_vars

\* ---------------------------------------------------------------- inputs of the optimizers
\* draws of Airplane.__init__ as <<rate, fuel level, expected landing time>>:
\* never urgent, expected at 1 h and at 2 h
Calm1 == <<5, 2000, Hours(1)>>

Calm2 == <<5, 2000, Hours(2)>>

\* one hour of fuel above the reserve, expected at 2 h
Short == <<5, 305, Hours(2)>>

\* one hour of fuel above the reserve, expected at 1 h
Reserve == <<5, 305, Hours(1)>>

\* 61 hours of fuel above the reserve, expected at 62 h
Far == <<5, 605, Hours(62)>>

\* below the reserve, expected at -1 h
Early == <<20, 305, Hours(-1)>>

Stream(draws) ==
    [n \in 1..Len(draws) |-> Airplane(n, draws[n][1], draws[n][3], draws[n][2])]

\* the streams the optimizers are run on: none, one and two airplanes, every
\* stream of four airplanes over three kinds, and a mixed stream
SearchStreams ==
    {Stream(<<>>), Stream(<<Calm1>>), Stream(<<Calm1, Short>>),
     Stream(<<Far, Reserve, Early, Calm1>>)}
    \cup {Stream(d) : d \in [1..4 -> {Calm1, Calm2, Short}]}

\* ---------------------------------------------------------------- hill_climbing_schedule_landings
RECURSIVE HighestNeighbor(_, _, _, _)
HighestNeighbor(remaining, stream, state_df, state_score) ==
    IF remaining = <<>> THEN <<state_df, state_score>>
    ELSE CHOOSE r \in
             {IF score > state_score
              THEN HighestNeighbor(rest, stream, neighbor_df, score)
              ELSE HighestNeighbor(rest, stream, state_df, state_score) :
                 rest \in {Tail(remaining)},
                 neighbor_df \in {ScoredSchedule(Head(remaining), stream)},
                 score \in {evaluate_landing_schedule(Head(remaining), stream)}} :
                 TRUE

\* lines 285-289: the neighbor with the lowest score below next_score, as
\* <<next_state_df, next_score>>
RECURSIVE LowestNeighbor(_, _, _, _)
LowestNeighbor(remaining, stream, state_df, state_score) ==
    IF remaining = <<>> THEN <<state_df, state_score>>
    ELSE CHOOSE r \in
             {IF score < state_score
              THEN LowestNeighbor(rest, stream, neighbor_df, score)
              ELSE LowestNeighbor(rest, stream, state_df, state_score) :
                 rest \in {Tail(remaining)},
                 neighbor_df \in {ScoredSchedule(Head(remaining), stream)},
                 score \in {evaluate_landing_schedule(Head(remaining), stream)}} :
                 TRUE

\* lines 264-273
HC_Start ==
    /\ pc = "start"
    /\ airplane_stream' = RecomputeUrgency(airplane_stream)
    /\ IF Len(airplane_stream) = 0
       THEN /\ landing_schedule_df' = schedule_landings(airplane_stream')
            /\ pc' = "KeyError"
            /\ UNCHANGED current_score
       ELSE /\ landing_schedule_df' =
                   ScoredSchedule(schedule_landings(airplane_stream'),
                                  airplane_stream')
            /\ current_score' =
                   evaluate_landing_schedule(schedule_landings(airplane_stream'),
                                             airplane_stream')
            /\ pc' = "neighbors"
    /\ scores' = <<>>
    /\ UNCHANGED <<neighbors, next_state_df, next_score, tabuVars, annealingVars, geneticVars>>

\* lines 278-282; random.sample raises ValueError on fewer than 2 rows
HC_GetSuccessors ==
    /\ pc = "neighbors"
    /\ IF Len(landing_schedule_df) < 2
       THEN /\ pc' = "ValueError"
            /\ UNCHANGED <<neighbors, next_state_df, next_score>>
       ELSE /\ neighbors' \in SuccessorLists(landing_schedule_df, airplane_stream)
            /\ next_state_df' = landing_schedule_df
            /\ next_score' = current_score
            /\ pc' = "select"
    /\ UNCHANGED <<airplane_stream, landing_schedule_df, current_score, scores,
                   tabuVars, annealingVars, geneticVars>>

HC_SelectKeepsScore ==
    /\ pc = "select"
    /\ LET lowest == LowestNeighbor(neighbors, airplane_stream,
                                    next_state_df, next_score)
       IN  /\ next_state_df' = lowest[1]
           /\ next_score' = lowest[2]
           /\ IF lowest[2] = current_score
              THEN /\ pc' = "done"
                   /\ UNCHANGED <<landing_schedule_df, neighbors>>
              ELSE /\ landing_schedule_df' = lowest[1]
                   /\ neighbors' = <<>>
                   /\ pc' = "neighbors"
    /\ UNCHANGED <<airplane_stream, current_score, scores, tabuVars, annealingVars, geneticVars>>

\* lines 285-295.  The list of neighbors is rebound at the top of the next
\* iteration before anything reads it: the model drops it when the iteration ends.
HC_Select ==
    /\ pc = "select"
    /\ LET lowest == LowestNeighbor(neighbors, airplane_stream,
                                    next_state_df, next_score)
       IN  /\ next_state_df' = lowest[1]
           /\ next_score' = lowest[2]
           /\ IF lowest[2] = current_score
              THEN /\ pc' = "done"
                   /\ UNCHANGED <<landing_schedule_df, current_score, neighbors>>
              ELSE /\ landing_schedule_df' = lowest[1]
                   /\ current_score' = lowest[2]
                   /\ neighbors' = <<>>
                   /\ pc' = "neighbors"
    /\ UNCHANGED <<airplane_stream, scores, tabuVars, annealingVars, geneticVars>>

InitHC ==
    /\ airplane_stream \in SearchStreams
    /\ pc = "start"
    /\ landing_schedule_df = <<>>
    /\ current_score = NoScore
    /\ SearchIdle
    /\ TabuIdle
    /\ AnnealingIdle
    /\ GeneticIdle

NextHC ==
    \/ HC_Start
    \/ HC_GetSuccessors
    \/ HC_Select

\* the loop runs on its own: every step that can be taken is taken
SpecHC == InitHC /\ [][NextHC]_vars /\ WF_vars(NextHC)

\* ---------------------------------------------------------------- tabu_search_schedule_landings
\* largest max_iterations and max_tabu_size the search is called with
MaxIterations == 3

MaxTabuSize == 2

\* the streams tabu search is run on for up to MaxIterations iterations ...
TabuStreams ==
    {Stream(<<>>), Stream(<<Calm1>>), Stream(<<Calm1, Short>>),
     Stream(<<Calm1, Early, Reserve>>), Stream(<<Far, Short, Calm2>>)}

\* ... and those it is run on for one iteration: with four airplanes one has to
\* wait for a runway, and which one waits decides the score
TabuStreamsOneIteration ==
    {Stream(<<Calm1, Calm1, Calm1, Calm2>>), Stream(<<Calm1, Short, Calm1, Calm2>>)}

\* DataFrame.to_string(): one line per row holding the index label and the
\* cells.  Every time and score of the model has at most six significant
\* digits, so the float formatting of pandas keeps different cells different.
to_string(df) ==
    [n \in 1..Len(df) |->
        <<n - 1, df[n].AirplaneID, df[n].ActualLandingTime, df[n].Urgent,
          df[n].LandingStrip, IF HasScore(df[n]) THEN <<df[n].Score>> ELSE <<>>>>]

InList(string, list) == \E n \in 1..Len(list) : list[n] = string

TabuAppendDropsNewest(list, string, size) ==
    LET appended == Append(list, string)
    IN  IF Len(appended) > size THEN SubSeq(appended, 1, Len(appended) - 1)
        ELSE appended

\* lines 413-415: append, then drop the oldest entry when the list is too long
TabuAppend(list, string, size) ==
    LET appended == Append(list, string)
    IN  IF Len(appended) > size THEN Tail(appended) ELSE appended

\* lines 385-392
Tabu_Start ==
    /\ pc = "start"
    /\ airplane_stream' = RecomputeUrgency(airplane_stream)
    /\ IF Len(airplane_stream) = 0
       THEN /\ landing_schedule_df' = schedule_landings(airplane_stream')
            /\ pc' = "KeyError"
            /\ UNCHANGED <<current_score, scores, tabu_list, it>>
       ELSE /\ landing_schedule_df' =
                   ScoredSchedule(schedule_landings(airplane_stream'),
                                  airplane_stream')
            /\ current_score' =
                   evaluate_landing_schedule(schedule_landings(airplane_stream'),
                                             airplane_stream')
            /\ scores' = <<>>
            /\ tabu_list' = <<>>
            /\ it' = 0
            /\ pc' = "loop"
    /\ UNCHANGED <<neighbors, next_state_df, next_score, scanned,
                   best_solution_df, best_solution_score, round_tabu_list,
                   max_iterations, max_tabu_size, annealingVars, geneticVars>>

Tabu_IterationNoHistory ==
    /\ pc = "loop"
    /\ IF it >= max_iterations
       THEN /\ pc' = "done"
            /\ UNCHANGED <<neighbors, next_state_df, next_score, scanned,
                           best_solution_df, best_solution_score,
                           round_tabu_list>>
       ELSE IF Len(landing_schedule_df) < 2
       THEN /\ pc' = "ValueError"
            /\ UNCHANGED <<neighbors, next_state_df, next_score, scanned,
                           best_solution_df, best_solution_score,
                           round_tabu_list>>
       ELSE /\ neighbors' \in SuccessorLists(landing_schedule_df, airplane_stream)
            /\ next_state_df' = landing_schedule_df
            /\ next_score' = current_score
            /\ best_solution_df' = landing_schedule_df
            /\ best_solution_score' =
                   evaluate_landing_schedule(landing_schedule_df, airplane_stream)
            /\ scanned' = 0
            /\ round_tabu_list' = tabu_list
            /\ pc' = "scan"
    /\ UNCHANGED <<airplane_stream, landing_schedule_df, current_score, scores,
                   tabu_list, it, max_iterations, max_tabu_size, annealingVars, geneticVars>>

\* lines 394-401: the loop test and the head of an iteration; random.sample
\* raises ValueError on fewer than 2 rows, before the score is appended
Tabu_Iteration ==
    /\ pc = "loop"
    /\ IF it >= max_iterations
       THEN /\ pc' = "done"
            /\ UNCHANGED <<neighbors, next_state_df, next_score, scores, scanned,
                           best_solution_df, best_solution_score,
                           round_tabu_list>>
       ELSE IF Len(landing_schedule_df) < 2
       THEN /\ pc' = "ValueError"
            /\ UNCHANGED <<neighbors, next_state_df, next_score, scores, scanned,
                           best_solution_df, best_solution_score,
                           round_tabu_list>>
       ELSE /\ neighbors' \in SuccessorLists(landing_schedule_df, airplane_stream)
            /\ next_state_df' = landing_schedule_df
            /\ scores' = Append(scores, current_score)
            /\ next_score' = current_score
            /\ best_solution_df' = landing_schedule_df
            /\ best_solution_score' =
                   evaluate_landing_schedule(landing_schedule_df, airplane_stream)
            /\ scanned' = 0
            /\ round_tabu_list' = tabu_list
            /\ pc' = "scan"
    /\ UNCHANGED <<airplane_stream, landing_schedule_df, current_score,
                   tabu_list, it, max_iterations, max_tabu_size, annealingVars, geneticVars>>

\* lines 403-415: one pass of the for loop
Tabu_Neighbor ==
    /\ pc = "scan"
    /\ scanned < Len(neighbors)
    /\ LET neighbor_df == neighbors[scanned + 1]
           neighbor_string == to_string(neighbor_df)
           score == evaluate_landing_schedule(neighbor_df, airplane_stream)
           evaluated_df == ScoredSchedule(neighbor_df, airplane_stream)
           is_best == score < best_solution_score
           is_new == ~InList(neighbor_string, tabu_list)
           is_next == is_new /\ score < next_score
       IN  /\ neighbors' = [neighbors EXCEPT ![scanned + 1] = evaluated_df]
           /\ best_solution_df' = IF is_best THEN evaluated_df ELSE best_solution_df
           /\ best_solution_score' = IF is_best THEN score ELSE best_solution_score
           /\ next_state_df' = IF is_next THEN evaluated_df ELSE next_state_df
           /\ next_score' = IF is_next THEN score ELSE next_score
           /\ tabu_list' = IF is_new
                           THEN TabuAppend(tabu_list, neighbor_string, max_tabu_size)
                           ELSE tabu_list
    /\ scanned' = scanned + 1
    /\ UNCHANGED <<airplane_stream, pc, landing_schedule_df, current_score,
                   scores, round_tabu_list, it, max_iterations, max_tabu_size,
                   annealingVars, geneticVars>>

Tabu_ChooseStays ==
    /\ pc = "scan"
    /\ scanned = Len(neighbors)
    /\ IF next_score >= current_score
       THEN \/ \E n \in 1..Len(neighbors) :
                 /\ landing_schedule_df' = neighbors[n]
                 /\ current_score' =
                        evaluate_landing_schedule(neighbors[n], airplane_stream)
            \/ /\ landing_schedule_df' = best_solution_df
               /\ current_score' = best_solution_score
       ELSE /\ landing_schedule_df' = landing_schedule_df
            /\ current_score' = current_score
    /\ next_state_df' = landing_schedule_df'
    /\ next_score' = current_score'
    /\ neighbors' = <<>>
    /\ round_tabu_list' = <<>>
    /\ it' = it + 1
    /\ pc' = "loop"
    /\ UNCHANGED <<airplane_stream, scores, scanned, best_solution_df,
                   best_solution_score, tabu_list, max_iterations, max_tabu_size,
                   annealingVars, geneticVars>>

\* lines 417-427: random.random() < 0.1 picks a neighbor of the round at
\* random, otherwise the best solution of the round is taken.  The list of
\* neighbors is rebound at the top of the next iteration before anything reads
\* it: the model drops it when the iteration ends.
Tabu_Choose ==
    /\ pc = "scan"
    /\ scanned = Len(neighbors)
    /\ IF next_score >= current_score
       THEN \/ \E n \in 1..Len(neighbors) :
                 /\ landing_schedule_df' = neighbors[n]
                 /\ current_score' =
                        evaluate_landing_schedule(neighbors[n], airplane_stream)
            \/ /\ landing_schedule_df' = best_solution_df
               /\ current_score' = best_solution_score
       ELSE /\ landing_schedule_df' = next_state_df
            /\ current_score' = next_score
    /\ next_state_df' = landing_schedule_df'
    /\ next_score' = current_score'
    /\ neighbors' = <<>>
    /\ round_tabu_list' = <<>>
    /\ it' = it + 1
    /\ pc' = "loop"
    /\ UNCHANGED <<airplane_stream, scores, scanned, best_solution_df,
                   best_solution_score, tabu_list, max_iterations, max_tabu_size,
                   annealingVars, geneticVars>>

InitTabu ==
    /\ \/ /\ airplane_stream \in TabuStreams
          /\ max_iterations \in 0..MaxIterations
       \/ /\ airplane_stream \in TabuStreamsOneIteration
          /\ max_iterations = 1
    /\ max_tabu_size \in 0..MaxTabuSize
    /\ pc = "start"
    /\ landing_schedule_df = <<>>
    /\ current_score = NoScore
    /\ SearchIdle
    /\ scanned = 0
    /\ best_solution_df = <<>>
    /\ best_solution_score = NoScore
    /\ tabu_list = <<>>
    /\ round_tabu_list = <<>>
    /\ it = 0
    /\ AnnealingIdle
    /\ GeneticIdle

NextTabu ==
    \/ Tabu_Start
    \/ Tabu_Iteration
    \/ Tabu_Neighbor
    \/ Tabu_Choose

SpecTabu == InitTabu /\ [][NextTabu]_vars

\* ---------------------------------------------------------------- simulated_annealing_schedule_landings
\* The temperature is a float that starts at 1.0 and is multiplied by 0.9.  The
\* model keeps it in units of 1/TUnit, rounded down at every step: the error
\* stays below 10 units, and the temperatures around T_min are thousands of
\* units away from it (0.9^65 = 0.00106112, 0.9^66 = 0.00095500).
TUnit == 100000000

\* T_min = 0.001
T_min == TUnit \div 1000

CoolFaster(temperature) == (temperature * 8) \div 10

\* T *= alpha, alpha = 0.9
Cool(temperature) == (temperature * 9) \div 10

\* get_schedule_neighbor: a copy with two rows swapped, nothing recomputed
ScheduleNeighbors(schedule_df) ==
    {SwapRows(schedule_df, p[1], p[2]) : p \in SamplePairs(Len(schedule_df))}

\* lines 331-338; landing_schedule_df stands for current_schedule.  A frame
\* without rows has no Score column after calculate_score: KeyError
SA_Start ==
    /\ pc = "start"
    /\ IF Len(airplane_stream) = 0
       THEN /\ landing_schedule_df' = schedule_landings(airplane_stream)
            /\ pc' = "KeyError"
            /\ UNCHANGED <<current_score, annealingVars>>
       ELSE /\ landing_schedule_df' =
                   ScoredSchedule(schedule_landings(airplane_stream),
                                  airplane_stream)
            /\ current_score' = TotalScore(landing_schedule_df')
            /\ best_schedule' = landing_schedule_df'
            /\ best_score' = current_score'
            /\ T' = TUnit
            /\ iterations' = 0
            /\ pc' = "anneal"
    /\ UNCHANGED <<airplane_stream, searchVars, tabuVars, geneticVars>>

\* lines 340-350: the loop test and one pass of the body.  A neighbor that is
\* not better is accepted when exp((new_score - current_score) / T) exceeds a
\* random number of [0, 1): always when the scores are equal, sometimes when
\* the neighbor is worse.
SA_Iteration ==
    /\ pc = "anneal"
    /\ IF T <= T_min
       THEN /\ pc' = "done"
            /\ UNCHANGED <<landing_schedule_df, current_score, annealingVars>>
       ELSE IF Len(landing_schedule_df) < 2
       THEN /\ pc' = "ValueError"
            /\ UNCHANGED <<landing_schedule_df, current_score, annealingVars>>
       ELSE /\ \E neighbor_df \in ScheduleNeighbors(landing_schedule_df),
                  accept_worse \in BOOLEAN :
                  LET new_schedule == ScoredSchedule(neighbor_df, airplane_stream)
                      new_score == TotalScore(new_schedule)
                      accepted == new_score >= current_score \/ accept_worse
                  IN  /\ landing_schedule_df' =
                             IF accepted THEN new_schedule ELSE landing_schedule_df
                      /\ current_score' =
                             IF accepted THEN new_score ELSE current_score
                      /\ best_schedule' =
                             IF accepted /\ new_score > best_score
                             THEN new_schedule ELSE best_schedule
                      /\ best_score' =
                             IF accepted /\ new_score > best_score
                             THEN new_score ELSE best_score
            /\ T' = Cool(T)
            /\ iterations' = iterations + 1
            /\ UNCHANGED pc
    /\ UNCHANGED <<airplane_stream, searchVars, tabuVars, geneticVars>>

\* the streams simulated annealing is run on
AnnealingStreams == TabuStreams \cup TabuStreamsOneIteration

InitSA ==
    /\ airplane_stream \in AnnealingStreams
    /\ pc = "start"
    /\ landing_schedule_df = <<>>
    /\ current_score = NoScore
    /\ SearchIdle
    /\ TabuIdle
    /\ AnnealingIdle
    /\ GeneticIdle

NextSA ==
    \/ SA_Start
    \/ SA_Iteration

SpecSA == InitSA /\ [][NextSA]_vars /\ WF_vars(NextSA)

\* ample fuel, expected at -1 h: lands at 3/60 h, 1.05 h off
CalmEarly == <<5, 2000, Hours(-1)>>

\* Streams for the sums of simulated annealing: one and two airplanes, three
\* whose scores have the same float sum in every order of the rows, and three
\* whose float sum depends on the order.
SumStreams ==
    {Stream(<<Calm1>>), Stream(<<Calm1, Short>>),
     Stream(<<Calm1, Early, Reserve>>), Stream(<<CalmEarly, CalmEarly, Calm1>>)}

InitSASums ==
    /\ airplane_stream \in SumStreams
    /\ pc = "start"
    /\ landing_schedule_df = <<>>
    /\ current_score = NoScore
    /\ SearchIdle
    /\ TabuIdle
    /\ AnnealingIdle
    /\ GeneticIdle

SpecSASums == InitSASums /\ [][NextSA]_vars

\* ---------------------------------------------------------------- the optimizers' urgency
InitUrgency ==
    /\ airplane_stream \in SearchStreams
    /\ pc = "start"
    /\ landing_schedule_df = <<>>
    /\ current_score = NoScore
    /\ SearchIdle
    /\ TabuIdle
    /\ AnnealingIdle
    /\ GeneticIdle

\* the first statements of the two optimizers that recompute is_urgent
NextUrgency ==
    \/ HC_Start
    \/ Tabu_Start

SpecUrgency == InitUrgency /\ [][NextUrgency]_vars

\* ---------------------------------------------------------------- GeneticAlgorithmScheduler
\* largest population_size and generations the scheduler is constructed with
MaxPopulationSize == 3

MaxGenerations == 7

\* stale_generations >= 5
StaleLimit == 5

\* best_score = float('inf'): above every aggregate score
Infinity == 1000000000

\* best_schedule = None; the DataFrame objects are numbered from 1
None == 0

\* the one-to-one maps of 1..size into 1..length: draws without replacement
Draws(size, length) ==
    {f \in [1..size -> 1..length] : \A a, b \in 1..size : f[a] = f[b] => a = b}

\* random.sample(self.airplane_stream, len(self.airplane_stream))
Shuffles(stream) ==
    {[n \in 1..Len(stream) |-> stream[f[n]]] : f \in Draws(Len(stream), Len(stream))}

\* generate_initial_schedule
InitialSchedules(stream) ==
    {schedule_landings(shuffled_stream) : shuffled_stream \in Shuffles(stream)}

\* calculate_fitness on each schedule of a list: evaluate_landing_schedule
\* writes the Score column into the object it is given
RECURSIVE EvaluatedFrames(_, _, _)
EvaluatedFrames(objects, schedules, stream) ==
    IF schedules = <<>> THEN objects
    ELSE CHOOSE r \in
             {EvaluatedFrames(written, rest, stream) :
                 written \in {[objects EXCEPT ![Head(schedules)] =
                                  ScoredSchedule(objects[Head(schedules)], stream)]},
                 rest \in {Tail(schedules)}} : TRUE

\* [self.calculate_fitness(schedule) for schedule in self.population]
FitnessScores(objects, schedules, stream) ==
    [k \in 1..Len(schedules) |->
        evaluate_landing_schedule(objects[schedules[k]], stream)]

SelectedParentsWithReplacement(schedules, size) ==
    {[k \in 1..size |-> schedules[f[k]]] : f \in [1..size -> 1..Len(schedules)]}

\* probabilities = 1 / (1 + fitness), divided by their sum, are rejected by
\* np.random.choice (ValueError) when one of them is not a number (some
\* 1 + fitness is 0) or is negative (the values 1 + fitness differ in sign)
ValidProbabilities(fitness_scores) ==
    /\ \A k \in 1..Len(fitness_scores) : Scale + fitness_scores[k] # 0
    /\ \A k, m \in 1..Len(fitness_scores) :
          (Scale + fitness_scores[k] > 0) = (Scale + fitness_scores[m] > 0)

\* np.random.choice(range(len(population)), size, replace=False, p): every
\* probability 1 / (1 + fitness) is positive, so every draw without
\* replacement is possible
SelectedParents(schedules, size) ==
    {[k \in 1..size |-> schedules[f[k]]] : f \in Draws(size, Len(schedules))}

\* pd.concat([parent1.iloc[:crossover_point], parent2.iloc[crossover_point:]])
Concat(parent1, parent2, crossover_point) ==
    SubSeq(parent1, 1, crossover_point)
        \o SubSeq(parent2, crossover_point + 1, Len(parent2))

\* schedule[schedule['Airplane ID'] == id].index[0]; 0 when no row has the id
\* (0-based in the program, which raises IndexError when there is none)
FirstRow(schedule, id) ==
    LET hits == {i \in 1..Len(schedule) : schedule[i].AirplaneID = id}
    IN  IF hits = {} THEN 0 ELSE CHOOSE i \in hits : \A j \in hits : i <= j

\* line 201: the two Actual Landing Times exchanged
SwapTimes(schedule, index, replacement_index) ==
    [schedule EXCEPT
        ![index].ActualLandingTime = schedule[replacement_index].ActualLandingTime,
        ![replacement_index].ActualLandingTime = schedule[index].ActualLandingTime]

\* mutate from row `index` on: the frames it can leave behind, each with TRUE
\* when the lookup of line 200 raised IndexError.  Each row is mutated or not
\* (random.random() < mutation_rate), with any airplane of the stream.
RECURSIVE MutateOutcomes(_, _, _)
MutateOutcomes(schedule, index, stream) ==
    IF index > Len(schedule) THEN {<<schedule, FALSE>>}
    ELSE UNION
        ({MutateOutcomes(schedule, next, stream) : next \in {index + 1}}
         \cup
         {IF FirstRow(schedule, stream[k].id) = 0
          THEN {<<schedule, TRUE>>}
          ELSE UNION {MutateOutcomes(swapped, index + 1, stream) :
                         swapped \in {SwapTimes(schedule, index,
                                                FirstRow(schedule, stream[k].id))}} :
             k \in 1..Len(stream)})

\* the objects a list of references mentions, in the order of first mention
RECURSIVE Mentioned(_, _)
Mentioned(references, seen) ==
    IF references = <<>> THEN seen
    ELSE IF \E k \in 1..Len(seen) : seen[k] = Head(references)
         THEN Mentioned(Tail(references), seen)
         ELSE Mentioned(Tail(references), Append(seen, Head(references)))

\* the number an object gets when only the mentioned objects are kept
Renumbered(kept, object) == CHOOSE k \in 1..Len(kept) : kept[k] = object

\* __init__, lines 163-168: population_size schedules, each a new object
GA_Init ==
    /\ pc = "start"
    /\ frames' \in [1..population_size -> InitialSchedules(airplane_stream)]
    /\ population' = [k \in 1..population_size |-> k]
    /\ pc' = "constructed"
    /\ UNCHANGED <<airplane_stream, landing_schedule_df, current_score, searchVars,
                   tabuVars, annealingVars, population_size, generations, parents,
                   new_population, generation, stale_generations>>

\* run, lines 205-207
GA_Run ==
    /\ pc = "constructed"
    /\ best_score' = Infinity
    /\ best_schedule' = None
    /\ stale_generations' = 0
    /\ generation' = 0
    /\ pc' = "generation"
    /\ UNCHANGED <<airplane_stream, landing_schedule_df, current_score, searchVars,
                   tabuVars, T, iterations, population_size, generations, frames,
                   population, parents, new_population>>

\* lines 209-211: the test of the for loop (generation counts the generations
\* completed) and selection.  A frame without rows has no Score column:
\* KeyError.  An empty population gives probabilities that do not sum to 1, and
\* a population smaller than population_size cannot be drawn from without
\* replacement: ValueError.
GA_Selection ==
    /\ pc = "generation"
    /\ IF generation >= generations
       THEN /\ pc' = "done"
            /\ UNCHANGED <<frames, parents, new_population>>
       ELSE IF \E k \in 1..Len(population) : frames[population[k]] = <<>>
       THEN /\ pc' = "KeyError"
            /\ UNCHANGED <<frames, parents, new_population>>
       ELSE IF population = <<>> \/ population_size > Len(population)
       THEN /\ pc' = "ValueError"
            /\ UNCHANGED <<frames, parents, new_population>>
       ELSE IF ~ValidProbabilities(FitnessScores(frames, population,
                                                 airplane_stream))
       THEN /\ frames' = EvaluatedFrames(frames, population, airplane_stream)
            /\ pc' = "ValueError"
            /\ UNCHANGED <<parents, new_population>>
       ELSE /\ frames' = EvaluatedFrames(frames, population, airplane_stream)
            /\ parents' \in SelectedParents(population, population_size)
            /\ new_population' = <<>>
            /\ pc' = "breed"
    /\ UNCHANGED <<airplane_stream, landing_schedule_df, current_score, searchVars,
                   tabuVars, annealingVars, population_size, generations,
                   population, generation, stale_generations>>

\* lines 213-218, one pass of the while loop: two parents, crossover or not,
\* both children mutated, both appended.  random.sample raises ValueError on
\* fewer than 2 parents, random.randint(1, rows - 2) on fewer than 3 rows.
\* Without crossover the children are the parents themselves, and mutate
\* changes the object it is given.
GA_Breed ==
    /\ pc = "breed"
    /\ Len(new_population) < population_size
    /\ IF Len(parents) < 2
       THEN /\ pc' = "ValueError"
            /\ UNCHANGED <<frames, new_population>>
       ELSE \E i, j \in 1..Len(parents), crossed \in BOOLEAN :
            /\ i # j
            /\ LET parent1 == parents[i]
                   parent2 == parents[j]
                   rows == Len(frames[parent1])
               IN  IF crossed /\ rows < 3
                   THEN /\ pc' = "ValueError"
                        /\ UNCHANGED <<frames, new_population>>
                   ELSE \E crossover_point \in
                               IF crossed THEN 1..(rows - 2) ELSE {0} :
                        LET born ==
                                IF crossed
                                THEN frames \o
                                     <<Concat(frames[parent1], frames[parent2],
                                              crossover_point),
                                       Concat(frames[parent2], frames[parent1],
                                              crossover_point)>>
                                ELSE frames
                            child1 == IF crossed THEN Len(frames) + 1 ELSE parent1
                            child2 == IF crossed THEN Len(frames) + 2 ELSE parent2
                        IN  \E first \in MutateOutcomes(born[child1], 1,
                                                        airplane_stream) :
                            LET mutated == [born EXCEPT ![child1] = first[1]]
                            IN  IF first[2]
                                THEN /\ frames' = mutated
                                     /\ pc' = "IndexError"
                                     /\ UNCHANGED new_population
                                ELSE \E second \in
                                         MutateOutcomes(mutated[child2], 1,
                                                        airplane_stream) :
                                     /\ frames' =
                                            [mutated EXCEPT ![child2] = second[1]]
                                     /\ IF second[2]
                                        THEN /\ pc' = "IndexError"
                                             /\ UNCHANGED new_population
                                        ELSE /\ new_population' =
                                                    new_population
                                                        \o <<child1, child2>>
                                             /\ pc' = "breed"
    /\ UNCHANGED <<airplane_stream, landing_schedule_df, current_score, searchVars,
                   tabuVars, annealingVars, population_size, generations,
                   population, parents, generation, stale_generations>>

BookkeepingNeverResets(objects, schedules, stream, score, schedule, stale) ==
    LET fitness == FitnessScores(objects, schedules, stream)
        current_best_score ==
            CHOOSE x \in {fitness[k] : k \in 1..Len(schedules)} :
                \A k \in 1..Len(schedules) : x <= fitness[k]
    IN  IF current_best_score < score
        THEN <<current_best_score,
               schedules[CHOOSE k \in 1..Len(schedules) :
                            fitness[k] = current_best_score],
               stale + 1>>
        ELSE <<score, schedule, stale + 1>>

\* the best-score bookkeeping of lines 222-228 on a new population, as
\* <<best_score, best_schedule, stale_generations>>
Bookkeeping(objects, schedules, stream, score, schedule, stale) ==
    LET fitness == FitnessScores(objects, schedules, stream)
        current_best_score ==
            CHOOSE x \in {fitness[k] : k \in 1..Len(schedules)} :
                \A k \in 1..Len(schedules) : x <= fitness[k]
    IN  IF current_best_score < score
        THEN <<current_best_score,
               schedules[CHOOSE k \in 1..Len(schedules) :
                            /\ fitness[k] = current_best_score
                            /\ \A l \in 1..(k - 1) : fitness[l] # current_best_score],
               0>>
        ELSE <<score, schedule, stale + 1>>

GA_EndGenerationKeepsAll ==
    /\ pc = "breed"
    /\ Len(new_population) >= population_size
    /\ LET evaluated == EvaluatedFrames(frames, new_population, airplane_stream)
           kept == Bookkeeping(evaluated, new_population, airplane_stream,
                               best_score, best_schedule, stale_generations)
           mentioned == Mentioned(<<kept[2]>> \o new_population, <<>>)
       IN  /\ frames' = [k \in 1..Len(mentioned) |-> evaluated[mentioned[k]]]
           /\ population' =
                  [k \in 1..Len(new_population) |->
                      Renumbered(mentioned, new_population[k])]
           /\ best_score' = kept[1]
           /\ best_schedule' = Renumbered(mentioned, kept[2])
           /\ stale_generations' = kept[3]
           /\ pc' = IF kept[3] >= StaleLimit THEN "done" ELSE "generation"
    /\ generation' = generation + 1
    /\ parents' = <<>>
    /\ new_population' = <<>>
    /\ UNCHANGED <<airplane_stream, landing_schedule_df, current_score, searchVars,
                   tabuVars, T, iterations, population_size, generations>>

\* lines 220-234, after the while loop: the truncation, the best schedule and
\* score, the staleness counter and the early stop.  Objects no variable
\* refers to any more are dropped and the others renumbered; parents and
\* new_population are rebound by the next generation before they are read.
GA_EndGeneration ==
    /\ pc = "breed"
    /\ Len(new_population) >= population_size
    /\ LET truncated == SubSeq(new_population, 1, population_size)
           evaluated == EvaluatedFrames(frames, truncated, airplane_stream)
           kept == Bookkeeping(evaluated, truncated, airplane_stream,
                               best_score, best_schedule, stale_generations)
           mentioned == Mentioned(<<kept[2]>> \o truncated, <<>>)
       IN  /\ frames' = [k \in 1..Len(mentioned) |-> evaluated[mentioned[k]]]
           /\ population' =
                  [k \in 1..Len(truncated) |-> Renumbered(mentioned, truncated[k])]
           /\ best_score' = kept[1]
           /\ best_schedule' = Renumbered(mentioned, kept[2])
           /\ stale_generations' = kept[3]
           /\ pc' = IF kept[3] >= StaleLimit THEN "done" ELSE "generation"
    /\ generation' = generation + 1
    /\ parents' = <<>>
    /\ new_population' = <<>>
    /\ UNCHANGED <<airplane_stream, landing_schedule_df, current_score, searchVars,
                   tabuVars, T, iterations, population_size, generations>>

\* the streams without a crossover point: none, one and two airplanes
ShortStreams == {Stream(<<>>), Stream(<<Calm1>>), Stream(<<Calm1, Calm2>>)}

\* three airplanes with different keys, and three of which two tie in the sort
CrossoverStreams ==
    {Stream(<<Calm1, Calm2, Short>>), Stream(<<Calm1, Calm2, Calm1>>)}

\* the runs of the genetic algorithm, as <<airplane_stream, population_size,
\* generations>>: every population size for one generation, up to
\* MaxGenerations generations for populations of up to two, and two
\* generations of a population of two where crossover has a point to cut at
GeneticRuns ==
    (ShortStreams \X (0..MaxPopulationSize) \X {0, 1})
    \cup (ShortStreams \X {0, 1, 2} \X (0..MaxGenerations))
    \cup (CrossoverStreams \X {2} \X {2})

InitGA ==
    /\ \E run \in GeneticRuns :
          /\ airplane_stream = run[1]
          /\ population_size = run[2]
          /\ generations = run[3]
    /\ pc = "start"
    /\ landing_schedule_df = <<>>
    /\ current_score = NoScore
    /\ SearchIdle
    /\ TabuIdle
    /\ best_schedule = None
    /\ best_score = NoScore
    /\ T = 0
    /\ iterations = 0
    /\ frames = <<>>
    /\ population = <<>>
    /\ parents = <<>>
    /\ new_population = <<>>
    /\ generation = 0
    /\ stale_generations = 0

NextGA ==
    \/ GA_Init
    \/ GA_Run
    \/ GA_Selection
    \/ GA_Breed
    \/ GA_EndGeneration

SpecGA == InitGA /\ [][NextGA]_vars

\* ---------------------------------------------------------------- every operation
\* One call of any of the operations on a list of airplanes: the builder and
\* the evaluator on a generated stream, or any of the four optimizers on the
\* mixed stream of hill climbing and on the streams of tabu search and the
\* genetic algorithm above, with their parameters for up to one iteration
\* and one generation (hill climbing and simulated annealing take none).
InitOperations ==
    \/ InitBuilder
    \/ InitHC /\ airplane_stream = Stream(<<Far, Reserve, Early, Calm1>>)
    \/ InitTabu /\ max_iterations <= 1
    \/ InitGA /\ generations <= 1

NextOperations == NextBuilder \/ NextHC \/ NextTabu \/ NextSA \/ NextGA

SpecOperations == InitOperations /\ [][NextOperations]_vars

\* ---------------------------------------------------------------- claims on the builder
\* the schedule a call of schedule_landings has returned
Built == pc \in {"scheduled", "evaluated"}

PlaneOf(row) == FindAirplane(airplane_stream, row.AirplaneID)[1]

Rows == 1..Len(landing_schedule_df)

Separated(i, j) ==
    landing_schedule_df[j].ActualLandingTime >=
        landing_schedule_df[i].ActualLandingTime + Occupancy + Gap

SameStrip(i, j) ==
    /\ i < j
    /\ landing_schedule_df[i].LandingStrip = landing_schedule_df[j].LandingStrip

\* the row's time is its airplane's remaining_flying_time, below what the strip allows
Clamped(j) ==
    /\ PlaneOf(landing_schedule_df[j]).is_urgent
    /\ landing_schedule_df[j].ActualLandingTime =
           PlaneOf(landing_schedule_df[j]).remaining_flying_time

\* C1 as stated: any two records of the same runway are separated by the
\* occupancy duration plus the gap, urgent airplanes included.
C1_SeparationAlways ==
    Built => \A i, j \in Rows : SameStrip(i, j) => Separated(i, j)

\* C1 amended: any two records of the same runway are separated by the occupancy
\* duration plus the gap unless the later record's airplane is urgent and lands
\* at its remaining_flying_time (the clamp of schedule_landings).
C1_SeparationUnlessClamped ==
    Built => \A i, j \in Rows : SameStrip(i, j) => (Separated(i, j) \/ Clamped(j))

\* a later record of a runway that had to wait for the earlier one
C1_Witness ==
    /\ Built
    /\ \E i, j \in Rows :
          /\ SameStrip(i, j)
          /\ ~Clamped(j)
          /\ landing_schedule_df[j].ActualLandingTime =
                 landing_schedule_df[i].ActualLandingTime + Occupancy + Gap
          /\ landing_schedule_df[j].ActualLandingTime >
                 PlaneOf(landing_schedule_df[j]).expected_landing_time

\* C2: every record of an urgent airplane has actual_landing_time <= the
\* airplane's remaining_flying_time.
C2_UrgentWithinFlyingTime ==
    Built => \A i \in Rows :
                PlaneOf(landing_schedule_df[i]).is_urgent =>
                    landing_schedule_df[i].ActualLandingTime <=
                        PlaneOf(landing_schedule_df[i]).remaining_flying_time

\* an urgent airplane on a reused runway, expected after it runs out of fuel
C2_Witness ==
    /\ Built
    /\ \E i \in Rows :
          /\ i > NumStrips
          /\ Clamped(i)
          /\ PlaneOf(landing_schedule_df[i]).expected_landing_time >
                 PlaneOf(landing_schedule_df[i]).remaining_flying_time

\* C3: no record has actual_landing_time < 0.
C3_NoNegativeTime ==
    Built => \A i \in Rows : landing_schedule_df[i].ActualLandingTime >= 0

\* a schedule with a negative expected time and an urgent airplane clamped to 0
C3_Witness ==
    /\ Built
    /\ \E i, j \in Rows :
          /\ PlaneOf(landing_schedule_df[i]).expected_landing_time < 0
          /\ ~PlaneOf(landing_schedule_df[i]).is_urgent
          /\ Clamped(j)
          /\ landing_schedule_df[j].ActualLandingTime = 0

\* ---- C4: the reference construction, stated row by row
C4_EveryAirplaneOnce ==
    /\ Len(landing_schedule_df) = Len(airplane_stream)
    /\ \A k \in 1..Len(airplane_stream) :
          Cardinality({i \in Rows :
              landing_schedule_df[i].AirplaneID = airplane_stream[k].id}) = 1

C4_UrgentFirstThenByKey ==
    \A i, j \in Rows :
        i < j =>
            LET a == PlaneOf(landing_schedule_df[i])
                b == PlaneOf(landing_schedule_df[j])
            IN  /\ ~(~a.is_urgent /\ b.is_urgent)
                /\ (a.is_urgent /\ b.is_urgent) =>
                       a.remaining_flying_time <= b.remaining_flying_time
                /\ (~a.is_urgent /\ ~b.is_urgent) =>
                       a.expected_landing_time <= b.expected_landing_time

C4_RoundRobin ==
    \A i \in Rows : landing_schedule_df[i].LandingStrip = ((i - 1) % NumStrips) + 1

\* availability of row i's runway: 0, or 3 hours after the runway's last landing
C4_Availability(i) ==
    LET before == {k \in 1..(i - 1) :
                      landing_schedule_df[k].LandingStrip =
                          landing_schedule_df[i].LandingStrip}
    IN  IF before = {} THEN 0
        ELSE landing_schedule_df[CHOOSE k \in before : \A m \in before : m <= k]
                 .ActualLandingTime + Hours(3)

C4_Unclamped(i) ==
    Max(PlaneOf(landing_schedule_df[i]).expected_landing_time,
        C4_Availability(i) + Gap)

C4_Example ==
    (/\ Len(airplane_stream) = 3
     /\ \A k \in 1..3 : /\ ~airplane_stream[k].is_urgent
                        /\ airplane_stream[k].expected_landing_time = Hours(k))
    => /\ \A i \in Rows :
             /\ landing_schedule_df[i].AirplaneID = i
             /\ landing_schedule_df[i].LandingStrip = i
             /\ landing_schedule_df[i].ActualLandingTime = Hours(i)
       /\ pc = "evaluated" =>
             /\ \A i \in Rows : landing_schedule_df[i].Score = Hours(1000)
             /\ current_score = Hours(3000)

\* C4 as stated: every airplane once, urgent first by remaining_flying_time then
\* non-urgent by expected_landing_time, runway (p mod 3) + 1, and
\* actual_landing_time = max(expected_landing_time, availability + 3/60).
C4_ReferenceWithoutClamp ==
    Built => /\ C4_EveryAirplaneOnce
             /\ C4_UrgentFirstThenByKey
             /\ C4_RoundRobin
             /\ \A i \in Rows :
                   landing_schedule_df[i].ActualLandingTime = C4_Unclamped(i)
             /\ C4_Example

\* C4 amended: as stated, except that the actual_landing_time of an urgent
\* airplane is the smaller of max(expected_landing_time, availability + 3/60)
\* and its remaining_flying_time.
C4_ReferenceWithClamp ==
    Built => /\ C4_EveryAirplaneOnce
             /\ C4_UrgentFirstThenByKey
             /\ C4_RoundRobin
             /\ \A i \in Rows :
                   LET airplane == PlaneOf(landing_schedule_df[i])
                   IN  landing_schedule_df[i].ActualLandingTime =
                          IF airplane.is_urgent
                             /\ C4_Unclamped(i) > airplane.remaining_flying_time
                          THEN airplane.remaining_flying_time
                          ELSE C4_Unclamped(i)
             /\ C4_Example

\* urgent airplanes given in descending remaining_flying_time and behind a
\* non-urgent one, and a non-urgent airplane waiting for a reused runway
C4_Witness ==
    /\ pc = "evaluated"
    /\ Len(airplane_stream) = 4
    /\ ~airplane_stream[1].is_urgent
    /\ airplane_stream[2].is_urgent /\ airplane_stream[3].is_urgent
    /\ airplane_stream[2].remaining_flying_time >
           airplane_stream[3].remaining_flying_time
    /\ \E i \in Rows :
          /\ i > 3
          /\ ~landing_schedule_df[i].Urgent
          /\ landing_schedule_df[i].ActualLandingTime >
                 PlaneOf(landing_schedule_df[i]).expected_landing_time

\* the worked example, evaluated
C4_ExampleReached ==
    /\ pc = "evaluated"
    /\ Len(airplane_stream) = 3
    /\ \A k \in 1..3 : /\ ~airplane_stream[k].is_urgent
                       /\ airplane_stream[k].expected_landing_time = Hours(k)

\* ---------------------------------------------------------------- claims on the optimizers
\* the schedule and the score the optimizers start from
InitialSchedule ==
    ScoredSchedule(schedule_landings(airplane_stream), airplane_stream)

InitialScore ==
    evaluate_landing_schedule(schedule_landings(airplane_stream), airplane_stream)

Planes == 1..Len(airplane_stream)

\* hill climbing or tabu search has executed its urgency loop
UrgencyRecomputed == pc # "start"

\* C5 as stated: after the optimizers' recomputation an airplane is urgent
\* exactly when remaining_flying_time < expected_landing_time.
C5_UrgentIffFlyingTimeShort ==
    UrgencyRecomputed =>
        \A n \in Planes :
            airplane_stream[n].is_urgent <=>
                airplane_stream[n].remaining_flying_time <
                    airplane_stream[n].expected_landing_time

\* C5 amended: after the optimizers' recomputation an airplane is urgent exactly
\* when fuel_level_final < emergency_fuel or remaining_flying_time <
\* expected_landing_time.
C5_UrgentIffReserveOrFlyingTime ==
    UrgencyRecomputed =>
        \A n \in Planes :
            airplane_stream[n].is_urgent <=>
                (\/ airplane_stream[n].fuel_level - airplane_stream[n].emergency_fuel
                        < airplane_stream[n].fuel_consumption_rate * 60
                 \/ airplane_stream[n].remaining_flying_time <
                        airplane_stream[n].expected_landing_time)

\* urgent for the fuel alone, urgent for the flying time alone, and not urgent
C5_Witness ==
    /\ UrgencyRecomputed
    /\ \E a, b, c \in Planes :
          /\ airplane_stream[a].is_urgent
          /\ airplane_stream[a].remaining_flying_time >=
                 airplane_stream[a].expected_landing_time
          /\ airplane_stream[b].is_urgent
          /\ airplane_stream[b].fuel_level_final >= airplane_stream[b].emergency_fuel
          /\ ~airplane_stream[c].is_urgent

\* C6: on a list of at least 2 airplanes hill climbing terminates, whatever
\* neighbors are drawn.
C6_HillClimbingTerminates ==
    (pc = "start" /\ Len(airplane_stream) >= 2) ~> (pc = "done")

\* terminated after it had moved to a neighbor
C6_Witness ==
    /\ pc = "done"
    /\ Len(airplane_stream) >= 2
    /\ landing_schedule_df # InitialSchedule

NeighborScores ==
    {evaluate_landing_schedule(neighbors[n], airplane_stream) :
        n \in 1..Len(neighbors)}

LowestNeighborScore ==
    CHOOSE x \in NeighborScores : \A y \in NeighborScores : x <= y

\* C7: an iteration adopts a neighbor of the lowest score among the generated
\* neighbors when that score is strictly below the current score, and stops with
\* the current schedule otherwise; the current score never rises, is the score
\* of the current schedule, and is never above the initial schedule's score.
C7_Minimizer ==
    /\ [](pc \in {"neighbors", "select", "done"} =>
             /\ current_score <= InitialScore
             /\ current_score =
                    evaluate_landing_schedule(landing_schedule_df, airplane_stream))
    /\ [][/\ pc = "select" =>
                IF LowestNeighborScore < current_score
                THEN /\ pc' = "neighbors"
                     /\ \E n \in 1..Len(neighbors) :
                           /\ landing_schedule_df' = neighbors[n]
                           /\ evaluate_landing_schedule(neighbors[n], airplane_stream)
                                  = LowestNeighborScore
                     /\ current_score' = LowestNeighborScore
                     /\ current_score' < current_score
                ELSE /\ pc' = "done"
                     /\ landing_schedule_df' = landing_schedule_df
                     /\ current_score' = current_score
          /\ pc # "start" => current_score' <= current_score
         ]_vars

\* returned a schedule with a score below the initial one
C7_Witness ==
    /\ pc = "done"
    /\ neighbors # <<>>
    /\ current_score < InitialScore

\* C8 as stated: the loop body runs about 44 times (here: 44 give or take 4).
C8_About44Iterations ==
    (pc = "done" /\ Len(airplane_stream) >= 2) => iterations \in 40..48

\* C8 amended: on a list of at least 2 airplanes the loop terminates after its
\* body has run exactly 66 times, whatever the airplanes and whatever neighbors
\* are accepted: the temperature is above 0.001 after fewer than 66
\* multiplications by 0.9 and not after 66.
C8_SixtySixIterations ==
    /\ []((pc \in {"anneal", "done"} /\ Len(airplane_stream) >= 2) =>
             /\ iterations <= 66
             /\ pc = "done" => iterations = 66
             /\ pc = "anneal" => (T <= T_min <=> iterations = 66))
    /\ (pc = "start" /\ Len(airplane_stream) >= 2)
           ~> (pc = "done" /\ iterations = 66)

\* returned after neighbors were accepted on the way
C8_Witness ==
    /\ pc = "done"
    /\ Len(airplane_stream) = 4
    /\ iterations = 66
    /\ landing_schedule_df # best_schedule

\* C9 as stated: at every point of the run the history length equals the
\* iteration counter, which is <= max_iterations, and entry 0 is the initial
\* schedule's score.
C9_LengthIsCounterAtEveryPoint ==
    /\ Len(scores) = it
    /\ it <= max_iterations
    /\ Len(scores) >= 1 => scores[1] = InitialScore

\* C9 amended: at every test of the loop condition and at the return the
\* history length equals the iteration counter, which is <= max_iterations;
\* inside an iteration, from the append to the increment of the counter, the
\* history is one entry longer than the counter.  An entry is appended only at
\* the head of an iteration, and entry k is the aggregate score of the schedule
\* current at the start of iteration k (entry 0 is the initial schedule's score).
C9_HistoryMatchesIterations ==
    /\ [](/\ Len(scores) = it + (IF pc = "scan" THEN 1 ELSE 0)
          /\ it <= max_iterations
          /\ Len(scores) <= max_iterations
          /\ Len(scores) >= 1 => scores[1] = InitialScore)
    /\ [][scores' # scores =>
             /\ pc = "loop" /\ pc' = "scan"
             /\ scores' =
                    Append(scores,
                           evaluate_landing_schedule(landing_schedule_df,
                                                     airplane_stream))
             /\ Len(scores') = it + 1
         ]_vars

\* returned a history of max_iterations entries that are not all the same
C9_Witness ==
    /\ pc = "done"
    /\ max_iterations >= 2
    /\ Len(scores) = max_iterations
    /\ scores[1] # scores[2]

\* C10: the tabu list never holds more than max_tabu_size entries; it changes
\* only when the for loop processes a neighbor whose string is not in it: the
\* string is appended, and when the list was full its oldest entry is removed.
C10_TabuListBoundedFifo ==
    [][/\ Len(tabu_list') <= max_tabu_size
       /\ IF pc = "scan" /\ scanned < Len(neighbors)
          THEN LET string == to_string(neighbors[scanned + 1])
               IN  IF InList(string, tabu_list)
                   THEN tabu_list' = tabu_list
                   ELSE IF Len(tabu_list) < max_tabu_size
                   THEN tabu_list' = tabu_list \o <<string>>
                   ELSE tabu_list' = SubSeq(tabu_list \o <<string>>, 2,
                                            Len(tabu_list) + 1)
          ELSE tabu_list' = tabu_list
      ]_vars

\* a full list from which a neighbor of this round has been removed again
C10_Witness ==
    /\ pc = "scan"
    /\ max_tabu_size >= 1
    /\ Len(tabu_list) = max_tabu_size
    /\ \E n \in 1..scanned : ~InList(to_string(neighbors[n]), tabu_list)

\* ---------------------------------------------------------------- claims on the genetic algorithm
\* C11: the population never holds more than population_size individuals, and
\* once a generation has ended it holds exactly population_size, which is then
\* at least 2 (odd sizes included: the children are appended two at a time and
\* the list is cut to population_size).
C11_PopulationBounded ==
    /\ Len(population) <= population_size
    /\ generation >= 1 =>
          /\ population_size >= 2
          /\ Len(population) = population_size
          /\ \A k \in 1..Len(population) : population[k] \in 1..Len(frames)

\* a generation of an odd population has ended
C11_Witness ==
    /\ generation >= 1
    /\ population_size = 3
    /\ Len(population) = 3

\* the best (lowest) fitness in the population
PopulationBest ==
    LET fitness == FitnessScores(frames, population, airplane_stream)
    IN  CHOOSE x \in {fitness[k] : k \in 1..Len(population)} :
            \A k \in 1..Len(population) : x <= fitness[k]

\* C12: run executes at most `generations` generations; a generation whose best
\* fitness is below the best score so far records it and resets the staleness
\* counter to 0, every other generation leaves the best score alone and adds 1
\* to the counter; the run ends right after the generation that brings the
\* counter to 5, and otherwise only when `generations` generations are done;
\* the best score never rises.
C12_GenerationsAndStaleness ==
    /\ [](/\ generation <= generations
          /\ stale_generations <= StaleLimit
          /\ pc = "done" =>
                (stale_generations = StaleLimit \/ generation = generations)
          /\ pc \in {"generation", "breed"} => stale_generations < StaleLimit)
    /\ [][/\ generation' # generation =>
                /\ pc = "breed"
                /\ generation' = generation + 1
                /\ IF PopulationBest' < best_score
                   THEN /\ best_score' = PopulationBest'
                        /\ stale_generations' = 0
                   ELSE /\ best_score' = best_score
                        /\ stale_generations' = stale_generations + 1
                /\ pc' = IF stale_generations' = StaleLimit
                         THEN "done" ELSE "generation"
          /\ pc = "generation" =>
                /\ pc' = "done" <=> generation = generations
                /\ pc' = "breed" => generation < generations
          /\ pc \in {"generation", "breed"} => best_score' <= best_score
         ]_vars

\* stopped early: 5 stale generations before `generations` were done
C12_Witness ==
    /\ pc = "done"
    /\ stale_generations = StaleLimit
    /\ generation < generations
    /\ best_score < Infinity

\* C13: at the return of run the aggregate score of the returned best_schedule,
\* as evaluate_landing_schedule computes it, is the returned best_score.
C13_BestScoreOfBestSchedule ==
    (pc = "done" /\ generation >= 1) =>
        evaluate_landing_schedule(frames[best_schedule], airplane_stream)
            = best_score

\* The records of a schedule: airplane id, actual landing time and runway of
\* each row, without the Score column that evaluate_landing_schedule writes.
Records(schedule) ==
    [n \in 1..Len(schedule) |->
        <<schedule[n].AirplaneID, schedule[n].ActualLandingTime,
          schedule[n].LandingStrip>>]

\* C14: a pass of the breeding loop (crossover and mutation) leaves the
\* records of every schedule that already exists - the members of the
\* population and of the parent pool, the recorded best schedule - as they
\* were, because it works on fresh copies.
C14_BreedingLeavesSchedulesAlone ==
    [][(pc = "breed" /\ Len(new_population) < population_size) =>
           \A object \in 1..Len(frames) :
               Records(frames'[object]) = Records(frames[object])]_vars

\* C15: an input that prevents a valid initial schedule is reported as a
\* failure: schedule_landings never hands back an empty schedule, the
\* construction of the population never completes for an empty airplane list,
\* and run never returns when population_size is below 2.
C15_InvalidInputIsReported ==
    /\ \A object \in 1..Len(frames) : frames[object] # <<>>
    /\ Len(airplane_stream) = 0 =>
          pc \in {"start", "ValueError", "KeyError", "IndexError"}
    /\ population_size < 2 => pc # "done"

\* ---------------------------------------------------------------- claims on the airplanes
\* the step is the first statement of hill climbing or of tabu search, the
\* loops at lines 264-266 and 385-386
RecomputesUrgency == pc = "start" /\ pc' \in {"neighbors", "loop"}

\* C16: every airplane has fuel_level >= emergency_fuel and
\* fuel_level_final >= 0 in every reachable state; no step of the builder, the
\* evaluator, the neighbor generators or the four optimizers removes an
\* airplane or changes a field of one other than is_urgent, and is_urgent is
\* changed only by the first step of hill climbing and of tabu search.
C16_AirplanesReadOnlyButUrgency ==
    /\ [](\A n \in 1..Len(airplane_stream) :
             /\ airplane_stream[n].fuel_level >= airplane_stream[n].emergency_fuel
             /\ airplane_stream[n].fuel_level_final >= 0)
    /\ [][/\ Len(airplane_stream') >= Len(airplane_stream)
          /\ \A n \in 1..Len(airplane_stream) :
                /\ [airplane_stream'[n] EXCEPT
                        !.is_urgent = airplane_stream[n].is_urgent]
                       = airplane_stream[n]
                /\ airplane_stream'[n].is_urgent # airplane_stream[n].is_urgent
                       => RecomputesUrgency]_vars

\* hill climbing or tabu search has changed the is_urgent the constructor set,
\* on a stream with an airplane whose fuel level was raised to the reserve
C16_Witness ==
    /\ pc \in {"neighbors", "loop"}
    /\ \E n \in 1..Len(airplane_stream) :
          airplane_stream[n].is_urgent #
              (airplane_stream[n].fuel_level_final
                   < airplane_stream[n].emergency_fuel
               \/ airplane_stream[n].remaining_flying_time < Hours(1))
    /\ \E n \in 1..Len(airplane_stream) :
          airplane_stream[n].fuel_level = airplane_stream[n].emergency_fuel

\* ---------------------------------------------------------------- claims on the choice of tabu search
NeighborStrings == [n \in 1..Len(neighbors) |-> to_string(neighbors[n])]

\* The neighbors (from the n-th on) that are not in the tabu list when the for
\* loop reaches them, the list being `list` when it reaches the n-th.
RECURSIVE NewWhenScanned(_, _)
NewWhenScanned(list, n) ==
    IF n > Len(neighbors) THEN {}
    ELSE IF InList(NeighborStrings[n], list) THEN NewWhenScanned(list, n + 1)
    ELSE {n} \cup NewWhenScanned(TabuAppend(list, NeighborStrings[n],
                                            max_tabu_size), n + 1)

NeighborScore(n) == evaluate_landing_schedule(neighbors[n], airplane_stream)

\* the neighbors of the round that are not tabu and score strictly lower than
\* the current schedule
Improving ==
    {n \in NewWhenScanned(round_tabu_list, 1) : NeighborScore(n) < current_score}

AdoptsLowestImproving ==
    \E n \in Improving :
        /\ \A m \in Improving : NeighborScore(n) <= NeighborScore(m)
        /\ landing_schedule_df' = neighbors[n]
        /\ current_score' = NeighborScore(n)

\* the step that ends an iteration, lines 417-427
EndsIteration == pc = "scan" /\ pc' = "loop"

\* C17 as stated: the next current schedule is a neighbor of the round - the
\* lowest-scoring one among those that are not tabu and score strictly lower
\* than the current schedule if there is one, otherwise a random neighbor or
\* the best neighbor of the round.
C17_NextStateAmongNeighbors ==
    [][EndsIteration =>
          IF Improving # {} THEN AdoptsLowestImproving
          ELSE \E n \in 1..Len(neighbors) : landing_schedule_df' = neighbors[n]]_vars

\* C17 amended: ... otherwise the next state is a neighbor of the round or,
\* when no neighbor scores strictly lower than the current schedule, the
\* current schedule itself, and current_score is the score of the next state.
C17_NextStateAmongNeighborsOrCurrent ==
    [][EndsIteration =>
          IF Improving # {} THEN AdoptsLowestImproving
          ELSE /\ \/ \E n \in 1..Len(neighbors) :
                        landing_schedule_df' = neighbors[n]
                  \/ /\ landing_schedule_df' = landing_schedule_df
                     /\ \A n \in 1..Len(neighbors) :
                           NeighborScore(n) >= current_score
               /\ current_score' =
                      evaluate_landing_schedule(landing_schedule_df',
                                                airplane_stream)]_vars

\* a later iteration is about to end in which no neighbor improves, the best
\* solution of the round is the current schedule and no neighbor equals it
C17_Witness ==
    /\ pc = "scan"
    /\ scanned = Len(neighbors)
    /\ it >= 1
    /\ Improving = {}
    /\ best_solution_df = landing_schedule_df
    /\ \A n \in 1..Len(neighbors) : neighbors[n] # landing_schedule_df

\* ---------------------------------------------------------------- claims on the neighbors
\* two rows of the schedule carrying the same runway are at least the
\* occupancy duration apart
SeparatedOnRecordedRunway(schedule) ==
    \A i, j \in 1..Len(schedule) :
        (i # j /\ schedule[i].LandingStrip = schedule[j].LandingStrip) =>
            Abs(schedule[i].ActualLandingTime - schedule[j].ActualLandingTime)
                >= Occupancy

\* C18: every schedule get_Hill_Tabu_successors produces keeps the records of
\* one runway at least 3 hours apart, by the runway recorded in each record.
C18_NeighborsSeparatedOnRecordedRunway ==
    \A k \in 1..Len(neighbors) : SeparatedOnRecordedRunway(neighbors[k])

\* every urgent airplane of the schedule lands while it can still fly
UrgentLandInTime(schedule, stream) ==
    \A n \in 1..Len(schedule) :
        LET found == FindAirplane(stream, schedule[n].AirplaneID)
        IN  (found # <<>> /\ found[1].is_urgent) =>
                schedule[n].ActualLandingTime <= found[1].remaining_flying_time

\* C19: in the schedule the search returns, every airplane that is urgent by
\* the formula of the search lands no later than its remaining flying time.
C19_ReturnedUrgentLandInTime ==
    pc = "done" => UrgentLandInTime(landing_schedule_df, airplane_stream)

\* ---------------------------------------------------------------- claims on simulated annealing
\* the neighbors get_schedule_neighbor can return, with their scores written
AnnealingNeighbors ==
    IF Len(landing_schedule_df) < 2 THEN {}
    ELSE {ScoredSchedule(neighbor_df, airplane_stream) :
             neighbor_df \in ScheduleNeighbors(landing_schedule_df)}

Annealing == pc \in {"anneal", "done"}

SameRows(schedule, other) ==
    /\ Len(schedule) = Len(other)
    /\ \A n \in 1..Len(schedule) :
          Cardinality({m \in 1..Len(schedule) : schedule[m] = schedule[n]})
              = Cardinality({m \in 1..Len(other) : other[m] = schedule[n]})

\* the sum of the scores without rounding
RECURSIVE ExactScore(_)
ExactScore(df) == IF df = <<>> THEN 0 ELSE Head(df).Score + ExactScore(Tail(df))

WithinRounding(score, df) ==
    Abs(score - ExactScore(df)) < Len(df) * Ulp(ExactScore(df), 1)

EachAirplaneOnce(schedule, stream) ==
    /\ Len(schedule) = Len(stream)
    /\ \A n \in 1..Len(stream) :
          Cardinality({m \in 1..Len(schedule) :
                          schedule[m].AirplaneID = stream[n].id}) = 1

\* C21: every individual of the population, at every generation, and the best
\* schedule hold each airplane of the input list exactly once, and the lookup
\* of mutate never fails to find the row of an airplane.
C21_IndividualsHoldEachAirplaneOnce ==
    /\ \A k \in 1..Len(population) :
          EachAirplaneOnce(frames[population[k]], airplane_stream)
    /\ best_schedule # None =>
          EachAirplaneOnce(frames[best_schedule], airplane_stream)
    /\ pc # "IndexError"

\* ---------------------------------------------------------------- claims on the selection
\* how many positions of the list refer to the object
Occurrences(object, schedules) ==
    Cardinality({k \in 1..Len(schedules) : schedules[k] = object})

\* selection has returned: line 211 has assigned parents
SelectionReturns == pc = "generation" /\ pc' = "breed"

\* C22: the parents selection returns are a permutation of the population:
\* as many as the population has members, and every individual as often
\* among the parents as it is in the population, whatever the fitnesses.
C22_SelectionIsPermutation ==
    [][SelectionReturns =>
          /\ Len(parents') = Len(population)
          /\ Len(population) = population_size
          /\ \A object \in 1..Len(frames) :
                Occurrences(object, parents') = Occurrences(object, population)]_vars

\* in a later generation selection has returned the individuals, which differ
\* in fitness, in another order than the population holds them
C22_Witness ==
    /\ pc = "breed"
    /\ new_population = <<>>
    /\ generation >= 1
    /\ Len(parents) >= 2
    /\ parents # population
    /\ \E k, m \in 1..Len(population) :
          evaluate_landing_schedule(frames[population[k]], airplane_stream)
              # evaluate_landing_schedule(frames[population[m]], airplane_stream)

====
